---- MODULE Spec2Model ----
(***************************************************************************)
(* Model of the log-structured document store of exercise-15/database.ts   *)
(* (QueryChecker, Filter, Sorter, Projector, Database) and of the Pipeline *)
(* composition of exercise-14/database.ts.                                 *)
(*                                                                         *)
(* JavaScript strings are sequences of UTF-16 code units (integers), so    *)
(* that toLowerCase, split(' '), String(x), ToNumber and the relational    *)
(* comparison of strings are computed rather than assumed.                 *)
(***************************************************************************)
EXTENDS Integers, Sequences, FiniteSets, TLC

(***************************************************************************)
(* Bounds of the model.                                                    *)
(***************************************************************************)
\* Largest number of entries (tag characters) the log file may hold.
MaxEntries == 3
\* Largest number of records handed to the read pipeline.
MaxArr == 3

(***************************************************************************)
(* JavaScript values: numbers, strings and undefined.                      *)
(***************************************************************************)
Num(n) == [t |-> "number", n |-> n, s |-> <<>>]
Str(s) == [t |-> "string", n |-> 0, s |-> s]
Undefined == [t |-> "undefined", n |-> 0, s |-> <<>>]

\* Code units used by the model: ' ' = 32, '0'..'9' = 48..57, 'A'..'Z' =
\* 65..90, 'a'..'z' = 97..122.
IsSpace(c) == c = 32
IsDigit(c) == c >= 48 /\ c <= 57
IsUpper(c) == c >= 65 /\ c <= 90

\* typeof x
TypeOf(v) == v.t

\* record[key]: a key that is not an own property reads as undefined.
Get(rec, key) == IF key \in DOMAIN rec THEN rec[key] ELSE Undefined

\* String.prototype.toLowerCase
ToLowerCase(s) == [i \in 1..Len(s) |-> IF IsUpper(s[i]) THEN s[i] + 32 ELSE s[i]]

\* Decimal digits of a non-negative integer (Number.prototype.toString).
RECURSIVE Digits(_)
Digits(n) == IF n < 10 THEN <<48 + n>> ELSE Digits(n \div 10) \o <<48 + (n % 10)>>

\* String(x): "undefined" for undefined, the decimal digits for a number.
ToStr(v) ==
    IF v.t = "string" THEN v.s
    ELSE IF v.t = "number" THEN Digits(v.n)
    ELSE <<117, 110, 100, 101, 102, 105, 110, 101, 100>>

\* String.prototype.split(' '): the maximal space-free pieces, empty pieces
\* included, in order.
RECURSIVE SplitFrom(_, _, _)
SplitFrom(s, i, cur) ==
    IF i > Len(s) THEN <<cur>>
    ELSE IF IsSpace(s[i]) THEN <<cur>> \o SplitFrom(s, i + 1, <<>>)
    ELSE SplitFrom(s, i + 1, Append(cur, s[i]))

Split(s) == SplitFrom(s, 1, <<>>)

\* Value of a string of decimal digits.
RECURSIVE DigitsValue(_)
DigitsValue(s) ==
    IF s = <<>> THEN 0
    ELSE 10 * DigitsValue(SubSeq(s, 1, Len(s) - 1)) + (s[Len(s)] - 48)

\* String.prototype.trim, for the white space of the model.
RECURSIVE Trim(_)
Trim(s) ==
    IF s = <<>> THEN s
    ELSE IF IsSpace(s[1]) THEN Trim(Tail(s))
    ELSE IF IsSpace(s[Len(s)]) THEN Trim(SubSeq(s, 1, Len(s) - 1))
    ELSE s

\* ToNumber: undefined is NaN; a string is trimmed, then "" is 0, a string
\* of digits is its value and anything else is NaN.
ToNumber(v) ==
    IF v.t = "number" THEN [nan |-> FALSE, n |-> v.n]
    ELSE IF v.t = "undefined" THEN [nan |-> TRUE, n |-> 0]
    ELSE LET tr == Trim(v.s) IN
         IF \A i \in 1..Len(tr) : IsDigit(tr[i])
            THEN [nan |-> FALSE, n |-> DigitsValue(tr)]
            ELSE [nan |-> TRUE, n |-> 0]

\* a < b on strings: lexicographic on code units.
RECURSIVE StrLess(_, _)
StrLess(a, b) ==
    IF b = <<>> THEN FALSE
    ELSE IF a = <<>> THEN TRUE
    ELSE IF a[1] # b[1] THEN a[1] < b[1]
    ELSE StrLess(Tail(a), Tail(b))

\* The relational operator a < b: two strings compare as strings, any other
\* pair is converted with ToNumber, and a NaN on either side gives false.
JsLess(a, b) ==
    IF a.t = "string" /\ b.t = "string" THEN StrLess(a.s, b.s)
    ELSE LET na == ToNumber(a)
             nb == ToNumber(b)
         IN  ~na.nan /\ ~nb.nan /\ na.n < nb.n

\* a === b
StrictEq(a, b) == a.t = b.t /\ a.n = b.n /\ a.s = b.s

(***************************************************************************)
(* Queries.  A node has exactly one shape: $and, $or, $text or a condition *)
(* map; a criterion has exactly one of $gt, $lt, $eq, $in.                 *)
(***************************************************************************)
And(subs) == [kind |-> "$and", subs |-> subs, text |-> <<>>, entries |-> <<>>]
Or(subs) == [kind |-> "$or", subs |-> subs, text |-> <<>>, entries |-> <<>>]
Text(s) == [kind |-> "$text", subs |-> <<>>, text |-> s, entries |-> <<>>]
Cond(entries) == [kind |-> "cond", subs |-> <<>>, text |-> <<>>, entries |-> entries]

Gt(v) == [op |-> "$gt", v |-> v, vs |-> <<>>]
Lt(v) == [op |-> "$lt", v |-> v, vs |-> <<>>]
Eq(v) == [op |-> "$eq", v |-> v, vs |-> <<>>]
In(vs) == [op |-> "$in", v |-> Undefined, vs |-> vs]
Entry(key, criterion) == [key |-> key, criterion |-> criterion]

\* QueryChecker.extractWords
extractWords(text) == Split(ToLowerCase(text))

\* includes taken on each word instead of on the array: a word that
\* contains the searched word as a substring counts.
IncludesSubstring(words, word) ==
    \E i \in 1..Len(words) :
        \E a \in 1..(Len(words[i]) + 1) : \E b \in 0..Len(words[i]) :
            SubSeq(words[i], a, b) = word

\* Array.prototype.includes on an array of strings
Includes(words, word) == \E i \in 1..Len(words) : words[i] = word

\* QueryChecker.checkCriterion
checkCriterion(dbRecord, key, criterion) ==
    LET valueToCheck == Get(dbRecord, key) IN
    IF criterion.op = "$in"
       THEN \E i \in 1..Len(criterion.vs) : StrictEq(criterion.vs[i], valueToCheck)
    ELSE IF criterion.op = "$gt" THEN JsLess(criterion.v, valueToCheck)
    ELSE IF criterion.op = "$lt" THEN JsLess(valueToCheck, criterion.v)
    ELSE StrictEq(criterion.v, valueToCheck)

\* The $text branch of QueryChecker.isOk
textOk(dbRecord, text, fullTextSearchFieldNames) ==
    LET wordsToSearch == extractWords(text)
        wordsToSearchIn == [i \in 1..Len(fullTextSearchFieldNames) |->
                              extractWords(ToStr(Get(dbRecord, fullTextSearchFieldNames[i])))]
    IN  \A w \in 1..Len(wordsToSearch) :
            \E f \in 1..Len(wordsToSearchIn) :
                Includes(wordsToSearchIn[f], wordsToSearch[w])

\* isOk with every in the $or branch.
RECURSIVE isOkOrEvery(_, _, _)
isOkOrEvery(dbRecord, query, fullTextSearchFieldNames) ==
    IF query.kind = "$and" \/ query.kind = "$or"
       THEN \A i \in 1..Len(query.subs) :
                isOkOrEvery(dbRecord, query.subs[i], fullTextSearchFieldNames)
    ELSE IF query.kind = "$text"
       THEN textOk(dbRecord, query.text, fullTextSearchFieldNames)
    ELSE \A i \in 1..Len(query.entries) :
             checkCriterion(dbRecord, query.entries[i].key, query.entries[i].criterion)

\* QueryChecker.isOk
RECURSIVE isOk(_, _, _)
isOk(dbRecord, query, fullTextSearchFieldNames) ==
    IF query.kind = "$and"
       THEN \A i \in 1..Len(query.subs) :
                isOk(dbRecord, query.subs[i], fullTextSearchFieldNames)
    ELSE IF query.kind = "$or"
       THEN \E i \in 1..Len(query.subs) :
                isOk(dbRecord, query.subs[i], fullTextSearchFieldNames)
    ELSE IF query.kind = "$text"
       THEN textOk(dbRecord, query.text, fullTextSearchFieldNames)
    ELSE \A i \in 1..Len(query.entries) :
             checkCriterion(dbRecord, query.entries[i].key, query.entries[i].criterion)

(***************************************************************************)
(* Pipeline operators.                                                     *)
(***************************************************************************)
\* Filter.get: Array.prototype.filter keeps the matching records in order.
Filter(arr, query, fullTextSearchFieldNames) ==
    SelectSeq(arr, LAMBDA elm : isOk(elm, query, fullTextSearchFieldNames))

\* Collation weight of a code unit at the primary level: letters compare
\* without regard to case, after the digits, which come after the space.
Primary(c) == IF IsUpper(c) THEN c + 32 ELSE c

\* The primary weights of a string.
Primaries(s) == [i \in 1..Len(s) |-> Primary(s[i])]

\* First index at which a and b differ, 0 if one is a prefix of the other.
FirstDiff(a, b) ==
    LET n == IF Len(a) < Len(b) THEN Len(a) ELSE Len(b)
        d == {i \in 1..n : a[i] # b[i]}
    IN  IF d = {} THEN 0 ELSE CHOOSE i \in d : \A j \in d : i <= j

\* String.prototype.localeCompare: -1, 0 or 1.  The primary level decides;
\* strings equal at the primary level differ by case, lower case first.
localeCompare(a, b) ==
    LET p == FirstDiff(Primaries(a), Primaries(b))
        c == FirstDiff(a, b)
    IN  IF p # 0 THEN (IF Primary(a[p]) < Primary(b[p]) THEN -1 ELSE 1)
        ELSE IF Len(a) # Len(b) THEN (IF Len(a) < Len(b) THEN -1 ELSE 1)
        ELSE IF c = 0 THEN 0
        ELSE IF a[c] > b[c] THEN -1 ELSE 1

\* The comparator comparatorFactory(key, sorter) builds, applied to (a, b).
comparatorFactory(key, sorter, a, b) ==
    LET x == Get(a, key)
        y == Get(b, key)
    IN  IF TypeOf(x) = "number" /\ TypeOf(y) = "number" THEN (x.n - y.n) * sorter
        ELSE IF TypeOf(x) = "string" /\ TypeOf(y) = "string"
             THEN sorter * localeCompare(x.s, y.s)
        ELSE 0

\* The function handed to Array.prototype.sort: the first comparator of the
\* sort spec, in Object.entries order, that is non-zero decides.
RECURSIVE compareFrom(_, _, _, _)
compareFrom(sort, i, a, b) ==
    IF i > Len(sort) THEN 0
    ELSE LET n == comparatorFactory(sort[i].key, sort[i].sorter, a, b)
         IN  IF n # 0 THEN n ELSE compareFrom(sort, i + 1, a, b)

compare(sort, a, b) == compareFrom(sort, 1, a, b)

\* arr with the element at index from moved to index to (to <= from).
MoveTo(arr, from, to) ==
    [i \in 1..Len(arr) |->
        IF i < to \/ i > from THEN arr[i]
        ELSE IF i = to THEN arr[from]
        ELSE arr[i - 1]]

\* Array.prototype.sort as the insertion sort engines use for short arrays:
\* the element at index i is moved left past every element that compares
\* greater than it, stopping at the first one that does not.
RECURSIVE LinearSlot(_, _, _, _)
LinearSlot(arr, sort, i, j) ==
    IF j >= 1 /\ compare(sort, arr[j], arr[i]) > 0
       THEN LinearSlot(arr, sort, i, j - 1)
       ELSE j + 1

RECURSIVE LinearInsertionSort(_, _, _)
LinearInsertionSort(arr, sort, i) ==
    IF i > Len(arr) THEN arr
    ELSE LinearInsertionSort(MoveTo(arr, i, LinearSlot(arr, sort, i, i - 1)), sort, i + 1)

\* Array.prototype.sort as the merge-based engine does for short arrays: the
\* leading run is counted (and reversed if strictly descending), then each
\* later element is placed by binary search.
RECURSIVE RunLength(_, _, _, _)
RunLength(arr, sort, descending, idx) ==
    IF idx > Len(arr) THEN idx - 1
    ELSE LET order == compare(sort, arr[idx], arr[idx - 1])
         IN  IF (descending /\ order >= 0) \/ (~descending /\ order < 0)
                THEN idx - 1
                ELSE RunLength(arr, sort, descending, idx + 1)

ReverseRange(arr, n) == [i \in 1..Len(arr) |-> IF i <= n THEN arr[n + 1 - i] ELSE arr[i]]

RECURSIVE BinarySlot(_, _, _, _, _)
BinarySlot(arr, sort, pivot, left, right) ==
    IF left >= right THEN left
    ELSE LET mid == left + ((right - left) \div 2)
         IN  IF compare(sort, pivot, arr[mid]) < 0
                THEN BinarySlot(arr, sort, pivot, left, mid)
                ELSE BinarySlot(arr, sort, pivot, mid + 1, right)

RECURSIVE BinaryInsertionSort(_, _, _)
BinaryInsertionSort(arr, sort, start) ==
    IF start > Len(arr) THEN arr
    ELSE BinaryInsertionSort(
             MoveTo(arr, start, BinarySlot(arr, sort, arr[start], 1, start)),
             sort, start + 1)

RunThenBinarySort(arr, sort) ==
    IF Len(arr) < 2 THEN arr
    ELSE LET descending == compare(sort, arr[2], arr[1]) < 0
             run == RunLength(arr, sort, descending, 3)
             made == IF descending THEN ReverseRange(arr, run) ELSE arr
         IN  BinaryInsertionSort(made, sort, run + 1)

\* An insertion sort that also moves an element past the elements it ties
\* with.
RECURSIVE UnstableSlot(_, _, _, _)
UnstableSlot(arr, sort, i, j) ==
    IF j >= 1 /\ compare(sort, arr[j], arr[i]) >= 0
       THEN UnstableSlot(arr, sort, i, j - 1)
       ELSE j + 1

RECURSIVE UnstableInsertionSort(_, _, _)
UnstableInsertionSort(arr, sort, i) ==
    IF i > Len(arr) THEN arr
    ELSE UnstableInsertionSort(MoveTo(arr, i, UnstableSlot(arr, sort, i, i - 1)), sort, i + 1)

SorterUnstable(arr, sort, eng) == UnstableInsertionSort(arr, sort, 2)

\* The sort engines a build may run on.
Engines == {"linear", "binary"}

\* Sorter.get with the engine's Array.prototype.sort
Sorter(arr, sort, eng) ==
    IF eng = "linear" THEN LinearInsertionSort(arr, sort, 2)
    ELSE RunThenBinarySort(arr, sort)

\* Object.keys(projector) as a set
KeySet(projector) == {projector[i] : i \in 1..Len(projector)}

\* Projector.get: every projection key becomes a key of the result, with
\* the value line[key].
Projector(arr, projector) ==
    [i \in 1..Len(arr) |-> [k \in KeySet(projector) |-> Get(arr[i], k)]]

(***************************************************************************)
(* The log file: a sequence of characters.  The tag characters, the line   *)
(* feed, the braces and each "key":value member of a payload are one       *)
(* character each.                                                         *)
(***************************************************************************)
Ch(c) == [c |-> c, k |-> "", v |-> Undefined]
Member(k, v) == [c |-> "kv", k |-> k, v |-> v]

\* Order in which the properties of a record were created.
KeyOrder == <<"_id", "name", "age">>

\* JSON.stringify(record): the own properties in creation order, a property
\* whose value is undefined left out.
RECURSIVE MembersFrom(_, _)
MembersFrom(record, i) ==
    IF i > Len(KeyOrder) THEN <<>>
    ELSE LET k == KeyOrder[i] IN
         (IF k \in DOMAIN record /\ record[k].t # "undefined"
             THEN <<Member(k, record[k])>> ELSE <<>>)
         \o MembersFrom(record, i + 1)

\* Database.writeRecord
writeRecord(record) == <<Ch("{")>> \o MembersFrom(record, 1) \o <<Ch("}")>>

\* Database.writeExistingRecord
writeExistingRecord(record) == <<Ch("E")>> \o writeRecord(record)

\* Database.writeDeletedRecord
writeDeletedRecord(record) == <<Ch("D")>> \o writeRecord(record)

\* Whether JSON.parse(text) returns: the text is one object, nothing more.
JsonValid(text) ==
    /\ Len(text) >= 2
    /\ text[1].c = "{"
    /\ text[Len(text)].c = "}"
    /\ \A i \in 2..(Len(text) - 1) : text[i].c = "kv"

\* JSON.parse(text) for a text that parses.
JsonParse(text) ==
    LET keys == {text[i].k : i \in 2..(Len(text) - 1)}
    IN  [k \in keys |->
            text[CHOOSE i \in 2..(Len(text) - 1) :
                    text[i].k = k /\ \A j \in 2..(Len(text) - 1) : text[j].k = k => j <= i].v]

\* isDeleted testing for the wrong tag character: no line is taken as deleted.
isDeletedWrongTag(line) == Len(line) >= 1 /\ line[1].c = "d"

\* Database.isDeleted: line.startsWith('D')
isDeleted(line) == Len(line) >= 1 /\ line[1].c = "D"

\* line.substring(1)
Substring1(line) == IF Len(line) >= 1 THEN Tail(line) ELSE line

\* Database.parseLine throws exactly when JSON.parse does.
parseLineThrows(line) == ~JsonValid(Substring1(line))
parseLine(line) == JsonParse(Substring1(line))

\* The lines readline emits for the content: the pieces between line feeds,
\* without a last piece that is empty.
RECURSIVE LinesFrom(_, _, _)
LinesFrom(content, i, cur) ==
    IF i > Len(content) THEN (IF cur = <<>> THEN <<>> ELSE <<cur>>)
    ELSE IF content[i].c = "nl" THEN <<cur>> \o LinesFrom(content, i + 1, <<>>)
    ELSE LinesFrom(content, i + 1, Append(cur, content[i]))

ReadLines(content) == LinesFrom(content, 1, <<>>)

\* lines.join('\n')
RECURSIVE Join(_)
Join(lines) ==
    IF lines = <<>> THEN <<>>
    ELSE IF Len(lines) = 1 THEN lines[1]
    ELSE lines[1] \o <<Ch("nl")>> \o Join(Tail(lines))

\* The promise and the array of Database.readAll before the first event.
readAllStart == [lines |-> <<>>, settled |-> "pending"]

\* The 'line' handler of Database.readAll: a deleted line is skipped, a line
\* that does not parse rejects the promise (a settled promise stays as it
\* is) and any other line pushes its record.
onLine(st, line) ==
    IF isDeleted(line) THEN st
    ELSE IF parseLineThrows(line)
         THEN [st EXCEPT !.settled = IF @ = "pending" THEN "rejected" ELSE @]
         ELSE [st EXCEPT !.lines = Append(@, parseLine(line))]

\* The 'line' events of one scan, in the order of the lines.
RECURSIVE lineEvents(_, _)
lineEvents(ls, st) ==
    IF ls = <<>> THEN st ELSE lineEvents(Tail(ls), onLine(st, Head(ls)))

\* A 'close' handler whose resolve settles the promise whatever happened
\* before: the records of the lines that parsed are returned.
onCloseLastWins(st) == [st EXCEPT !.settled = "resolved"]

\* The 'close' handler of Database.readAll: resolve(lines), which does
\* nothing to a promise that was rejected.
onClose(st) ==
    [st EXCEPT !.settled = IF @ = "pending" THEN "resolved" ELSE @]

\* Database.readAll: what the promise is settled with once the file was read.
readAll(content) ==
    LET st == onClose(lineEvents(ReadLines(content), readAllStart))
    IN  IF st.settled = "resolved"
           THEN [ok |-> TRUE, lines |-> st.lines]
           ELSE [ok |-> FALSE, lines |-> <<>>]

\* Find options: sort and projection may each be absent.
NoSort == [present |-> FALSE, spec |-> <<>>]
NoProjection == [present |-> FALSE, spec |-> <<>>]
SortBy(spec) == [present |-> TRUE, spec |-> spec]
ProjectOn(spec) == [present |-> TRUE, spec |-> spec]
Options(sort, projection) == [sort |-> sort, projection |-> projection]
SortKey(key, sorter) == [key |-> key, sorter |-> sorter]

\* The stages with the projection applied before the sort.
findStagesProjectFirst(lines, query, options, fullTextSearchFieldNames, eng) ==
    LET filtered == Filter(lines, query, fullTextSearchFieldNames)
        projected == IF options.projection.present
                        THEN Projector(filtered, options.projection.spec)
                        ELSE filtered
    IN  IF options.sort.present
           THEN Sorter(projected, options.sort.spec, eng)
           ELSE projected

\* The stages of Database.find after readAll: Filter, then Sorter if a sort
\* is given, then Projector if a projection is given.
findStages(lines, query, options, fullTextSearchFieldNames, eng) ==
    LET filtered == Filter(lines, query, fullTextSearchFieldNames)
        sorted == IF options.sort.present
                     THEN Sorter(filtered, options.sort.spec, eng)
                     ELSE filtered
    IN  IF options.projection.present
           THEN Projector(sorted, options.projection.spec)
           ELSE sorted

\* Database.find on the file content: rejected when readAll is.
find(content, query, options, fullTextSearchFieldNames, eng) ==
    LET all == readAll(content)
    IN  IF ~all.ok THEN all
        ELSE [ok |-> TRUE,
              lines |-> findStages(all.lines, query, options, fullTextSearchFieldNames, eng)]

(***************************************************************************)
(* exercise-14: the Pipeline and the find built on it.                     *)
(***************************************************************************)
FilterOp(query) == [op |-> "filter", query |-> query, spec |-> <<>>]
SorterOp(sort) == [op |-> "sort", query |-> [kind |-> "none", subs |-> <<>>, text |-> <<>>, entries |-> <<>>], spec |-> sort]
ProjectorOp(projector) == [op |-> "project", query |-> [kind |-> "none", subs |-> <<>>, text |-> <<>>, entries |-> <<>>], spec |-> projector]

\* operator.get()(value)
ApplyOperator(operator, value, fullTextSearchFieldNames, eng) ==
    IF operator.op = "filter" THEN Filter(value, operator.query, fullTextSearchFieldNames)
    ELSE IF operator.op = "sort" THEN Sorter(value, operator.spec, eng)
    ELSE Projector(value, operator.spec)

\* Pipeline.value: the operators applied in the order they were added.
RECURSIVE PipelineValue(_, _, _, _)
PipelineValue(value, operators, fullTextSearchFieldNames, eng) ==
    IF operators = <<>> THEN value
    ELSE PipelineValue(ApplyOperator(operators[1], value, fullTextSearchFieldNames, eng),
                       Tail(operators), fullTextSearchFieldNames, eng)

\* The operators the 'close' handler of exercise-14's find adds.
pipelineOperators(query, options) ==
    <<FilterOp(query)>>
    \o (IF options.sort.present THEN <<SorterOp(options.sort.spec)>> ELSE <<>>)
    \o (IF options.projection.present THEN <<ProjectorOp(options.projection.spec)>> ELSE <<>>)

\* exercise-14's Database.find: the same line handler as readAll, then the
\* pipeline's value.
find14(content, query, options, fullTextSearchFieldNames, eng) ==
    LET records == readAll(content)
    IN  IF ~records.ok THEN records
        ELSE [ok |-> TRUE,
              lines |-> PipelineValue(records.lines, pipelineOperators(query, options),
                                      fullTextSearchFieldNames, eng)]

\* The identifiers put in recordsToDeleteMap by Database.delete
recordsToDeleteMap(recordsToDelete) ==
    {Get(recordsToDelete[i], "_id") : i \in 1..Len(recordsToDelete)}

\* deleteLines with the branches of the conditional exchanged.
deleteLinesSwapped(all, recordsToDelete) ==
    [i \in 1..Len(all) |->
        IF Get(all[i], "_id") \in recordsToDeleteMap(recordsToDelete)
           THEN writeExistingRecord(all[i])
           ELSE writeDeletedRecord(all[i])]

\* deleteLines leaving the records to delete out instead of flagging them.
deleteLinesRemoving(all, recordsToDelete) ==
    LET kept == SelectSeq(all, LAMBDA r :
                    Get(r, "_id") \notin recordsToDeleteMap(recordsToDelete))
    IN  [i \in 1..Len(kept) |-> writeExistingRecord(kept[i])]

\* The lines Database.delete builds: one per record of all, tagged 'D' when
\* the record's _id is a key of recordsToDeleteMap and 'E' otherwise.
deleteLines(all, recordsToDelete) ==
    [i \in 1..Len(all) |->
        IF Get(all[i], "_id") \in recordsToDeleteMap(recordsToDelete)
           THEN writeDeletedRecord(all[i])
           ELSE writeExistingRecord(all[i])]

\* The content fs.writeFile is given by Database.delete
deleteContent(all, recordsToDelete) == Join(deleteLines(all, recordsToDelete))

\* The data fs.appendFile is given by Database.insert
insertData(record) == writeExistingRecord(record) \o <<Ch("nl")>>

\* fs.appendFile: the data is added at the end of the content.
appendFile(content, data) == content \o data

\* The data written after the old content instead of in its place.
writeFileAppending(content, data) == content \o data

\* The data written over the start of the old content without truncating
\* it: what was beyond the data stays.
writeFileInPlace(content, data) ==
    data \o SubSeq(content, Len(data) + 1, Len(content))

\* fs.writeFile: the data replaces the content.
writeFile(content, data) == data

(***************************************************************************)
(* State.                                                                  *)
(***************************************************************************)
VARIABLES
    file,        \* content of the log file
    delPc,       \* position of the delete call in flight: "idle", "read", "found"
    delQuery,    \* its query
    delAll,      \* its local all
    delFound,    \* its local recordsToDelete
    lastCall,    \* the call that completed last
    repeated,    \* the last two completed calls were delete with the same query
    dead,        \* records written with tag 'D' and not inserted since
    overlapped,  \* inserts completed while the delete call was in flight
    chkDone, chkRecord, chkQuery, chkFields, chkResult, \* a QueryChecker and its isOk()
    engine,      \* the sort engine of the build
    findDone, findImpl, findQuery, findOptions, findResult \* a find call and its result

logVars == <<file, delPc, delQuery, delAll, delFound, lastCall, repeated, dead,
            overlapped>>
chkVars == <<chkDone, chkRecord, chkQuery, chkFields, chkResult>>
findVars == <<engine, findDone, findImpl, findQuery, findOptions, findResult>>
vars == <<logVars, chkVars, findVars>>

(***************************************************************************)
(* Inputs.                                                                 *)
(***************************************************************************)
Record(id, name, age) == [k \in {"_id", "name", "age"} |->
                             IF k = "_id" THEN Num(id) ELSE IF k = "name" THEN Str(name) ELSE age]
RecordNoAge(id, name) == [k \in {"_id", "name"} |-> IF k = "_id" THEN Num(id) ELSE Str(name)]
NoRecord == [k \in {} |-> Undefined]
NoQuery == [kind |-> "none", subs |-> <<>>, text |-> <<>>, entries |-> <<>>]
NoOptions == Options(NoSort, NoProjection)
NoResult == [ok |-> FALSE, lines |-> <<>>]

\* Strings of the inputs: "a", "b", "A", "a b", "b a", "ab", "7", "".
sA == <<97>>
sB == <<98>>
sUpA == <<65>>
sAB == <<97, 32, 98>>
sBA == <<98, 32, 97>>
sAb == <<97, 98>>
s7 == <<55>>
sEmpty == <<>>

SeqsUpTo(S, n) == UNION {[1..k -> S] : k \in 0..n}

\* The full-text fields the Database is constructed with.
FullText == <<"name">>

\* Records the log is fed with: three identifiers, one of them used twice.
LogRecords ==
    { Record(1, sA, Num(1)), Record(2, sBA, Num(2)),
      Record(3, sB, Str(s7)), Record(1, sB, Num(2)) }

\* Queries delete is called with.
LogQueries ==
    { Cond(<<Entry("_id", Eq(Num(1)))>>),
      Cond(<<Entry("age", Gt(Num(1)))>>),
      Text(sA),
      Or(<<>>) }

Call(op, record, query, ok) == [op |-> op, record |-> record, query |-> query, ok |-> ok]

\* Number of entries in the content (tag characters written).
NumEntries(content) == Cardinality({i \in 1..Len(content) : content[i].c \in {"E", "D"}})

(***************************************************************************)
(* The log: insert and delete, one call at a time.                         *)
(***************************************************************************)
LogInit ==
    /\ file = <<>>
    /\ delPc = "idle"
    /\ delQuery = NoQuery
    /\ delAll = <<>>
    /\ delFound = <<>>
    /\ lastCall = Call("none", NoRecord, NoQuery, TRUE)
    /\ repeated = FALSE
    /\ dead = {}
    /\ overlapped = {}

ChkIdle ==
    /\ chkDone = FALSE
    /\ chkRecord = NoRecord
    /\ chkQuery = NoQuery
    /\ chkFields = <<>>
    /\ chkResult = FALSE

FindIdle ==
    /\ findDone = FALSE
    /\ findImpl = "none"
    /\ findQuery = NoQuery
    /\ findOptions = NoOptions
    /\ findResult = NoResult

\* Database.insert: fs.appendFile of the 'E' line and a line feed.
Insert(record) ==
    /\ delPc = "idle"
    /\ NumEntries(file) < MaxEntries
    /\ file' = appendFile(file, insertData(record))
    /\ lastCall' = Call("insert", record, NoQuery, TRUE)
    /\ repeated' = FALSE
    /\ dead' = dead \ {record}
    /\ overlapped' = {}
    /\ UNCHANGED <<delPc, delQuery, delAll, delFound, chkVars, findVars>>

\* Database.insert called and completed while a delete call is between two
\* of its steps: the same fs.appendFile.
InsertOverlapping(record) ==
    /\ delPc # "idle"
    /\ NumEntries(file) < MaxEntries
    /\ file' = appendFile(file, insertData(record))
    /\ lastCall' = Call("insert", record, NoQuery, TRUE)
    /\ repeated' = FALSE
    /\ dead' = dead \ {record}
    /\ overlapped' = overlapped \cup {[record |-> record, at |-> delPc]}
    /\ UNCHANGED <<delPc, delQuery, delAll, delFound, chkVars, findVars>>

\* The delete call is rejected: the file is left as it is.
DeleteRejected(query) ==
    /\ delPc' = "idle"
    /\ delQuery' = NoQuery
    /\ delAll' = <<>>
    /\ delFound' = <<>>
    /\ repeated' = (lastCall.op = "delete" /\ lastCall.query = query)
    /\ lastCall' = Call("delete", NoRecord, query, FALSE)
    /\ UNCHANGED <<file, dead, overlapped, chkVars, findVars>>

\* Database.delete up to its first await: all = await this.readAll()
DeleteReadAll(query) ==
    /\ delPc = "idle"
    /\ readAll(file).ok
    /\ delPc' = "read"
    /\ delQuery' = query
    /\ delAll' = readAll(file).lines
    /\ overlapped' = {}
    /\ UNCHANGED <<file, delFound, lastCall, repeated, dead, chkVars, findVars>>

\* Database.delete when its first await throws: readAll() was rejected.
DeleteReadAllRejected(query) ==
    /\ delPc = "idle"
    /\ ~readAll(file).ok
    /\ DeleteRejected(query)

\* Database.delete up to its second await: recordsToDelete = await this.find(query)
DeleteFind ==
    /\ delPc = "read"
    /\ LET found == find(file, delQuery, NoOptions, FullText, engine) IN
       IF found.ok
          THEN /\ delPc' = "found"
               /\ delFound' = found.lines
               /\ UNCHANGED <<file, delQuery, delAll, lastCall, repeated, dead,
                              overlapped, chkVars, findVars>>
          ELSE DeleteRejected(delQuery)

\* The rest of Database.delete: the lines are built and fs.writeFile
\* replaces the content of the file.
DeleteWrite ==
    /\ delPc = "found"
    /\ file' = writeFile(file, deleteContent(delAll, delFound))
    /\ dead' = dead \cup {delAll[i] : i \in {j \in 1..Len(delAll) :
                             Get(delAll[j], "_id") \in recordsToDeleteMap(delFound)}}
    /\ repeated' = (lastCall.op = "delete" /\ lastCall.query = delQuery)
    /\ lastCall' = Call("delete", NoRecord, delQuery, TRUE)
    /\ delPc' = "idle"
    /\ delQuery' = NoQuery
    /\ delAll' = <<>>
    /\ delFound' = <<>>
    /\ UNCHANGED <<overlapped, chkVars, findVars>>

\* insert and delete never sort, so one engine stands for both.
Init == LogInit /\ ChkIdle /\ FindIdle /\ engine = "binary"

Next ==
    \/ \E record \in LogRecords : Insert(record)
    \/ \E query \in LogQueries : DeleteReadAll(query)
    \/ \E query \in LogQueries : DeleteReadAllRejected(query)
    \/ DeleteFind
    \/ DeleteWrite
Spec == Init /\ [][Next]_vars

\* The calls of a program that does not await a delete before it inserts:
\* an insert may run between the steps of the delete.
NextConc ==
    \/ \E record \in LogRecords : Insert(record)
    \/ \E record \in LogRecords : InsertOverlapping(record)
    \/ \E query \in LogQueries : DeleteReadAll(query)
    \/ \E query \in LogQueries : DeleteReadAllRejected(query)
    \/ DeleteFind
    \/ DeleteWrite
SpecConc == Init /\ [][NextConc]_vars

(***************************************************************************)
(* Properties of the log.                                                  *)
(***************************************************************************)
Live(content) == readAll(content).lines
Returns(content, record) ==
    /\ readAll(content).ok
    /\ \E i \in 1..Len(Live(content)) : Live(content)[i] = record
NumLines(content) == Len(ReadLines(content))
DeletedLines(content) == SelectSeq(ReadLines(content), isDeleted)
DistinctIds(records) ==
    \A i, j \in 1..Len(records) :
        i # j => Get(records[i], "_id") # Get(records[j], "_id")
DeleteCompletes == delPc = "found" /\ delPc' = "idle"
InsertCompletes == delPc = "idle" /\ file' # file

\* C1: after a completed insert(R), in any state the log can be in, readAll()
\* resolves with a sequence that contains a record deep-equal to R.
C1_InsertThenReadAll ==
    lastCall.op = "insert" => Returns(file, lastCall.record)

\* C2: when the live records have pairwise distinct identifiers, readAll()
\* after a completed delete(Q) resolves with exactly the records that were
\* live before and do not match Q, in their former order.
C2_DeleteKeepsExactlyNonMatching ==
    [][ (DeleteCompletes /\ readAll(file).ok /\ DistinctIds(Live(file)))
        => /\ readAll(file').ok
           /\ Live(file') = SelectSeq(Live(file),
                                LAMBDA r : ~isOk(r, delQuery, FullText)) ]_vars

\* C2 witness: a delete has just completed on a log of three live records
\* with distinct identifiers, tombstoning one and keeping two.
C2_Witness ==
    /\ lastCall.op = "delete" /\ lastCall.ok /\ delPc = "idle"
    /\ Len(DeletedLines(file)) = 1
    /\ Len(Live(file)) = 2
    /\ DistinctIds([i \in 1..NumLines(file) |-> parseLine(ReadLines(file)[i])])

\* C3: a record whose entry a delete rewrote with tag 'D' is returned by no
\* later readAll(), whatever insert and delete calls follow (an insert of
\* the same record makes a new entry, which is not the tombstoned one).
C3_TombstonePermanence ==
    \A r \in dead : ~Returns(file, r)

\* C3 witness: a record is tombstoned, an insert has followed, and readAll()
\* resolves with other records.
C3_Witness ==
    /\ dead # {}
    /\ lastCall.op = "insert"
    /\ readAll(file).ok
    /\ Len(Live(file)) >= 1

\* C4: a delete(Q) that completes right after a completed delete(Q), no
\* insert in between, leaves what readAll() returns as it was.
C4_DeleteIdempotent ==
    [][ repeated' => readAll(file') = readAll(file) ]_vars

\* C4 witness: delete(Q) has completed twice in a row, the first one having
\* tombstoned a record, and a record is still live.
C4_Witness ==
    /\ repeated /\ lastCall.ok
    /\ dead # {}
    /\ Len(Live(file)) >= 1

\* C5 as stated: the number of lines of the file never decreases.
C5_LinesNeverDecrease ==
    [][ NumLines(file') >= NumLines(file) ]_vars

\* C5 amended: an insert removes no line; a completed delete leaves exactly
\* one line per record that was live before it, in order, and no line for
\* the entries that were tombstoned before it.
C5_DeleteKeepsLiveLinesOnly ==
    [][ /\ InsertCompletes => NumLines(file') >= NumLines(file)
        /\ DeleteCompletes =>
              /\ NumLines(file') = NumLines(file) - Len(DeletedLines(file))
              /\ NumLines(file') = Len(Live(file))
              /\ \A i \in 1..NumLines(file') :
                     /\ ~parseLineThrows(ReadLines(file')[i])
                     /\ parseLine(ReadLines(file')[i]) = Live(file)[i] ]_vars

\* C5 witness: a delete has completed and the line of a record tombstoned
\* earlier is gone from the file, while a live record has kept its line.
C5_Witness ==
    /\ lastCall.op = "delete" /\ lastCall.ok /\ delPc = "idle"
    /\ dead # {}
    /\ Len(DeletedLines(file)) = 0
    /\ Len(Live(file)) >= 1

(***************************************************************************)
(* The query evaluator on its own: a QueryChecker is built from a record,  *)
(* a query and the full-text fields, and isOk() is called.                 *)
(***************************************************************************)
CheckRecords ==
    { Record(1, sAB, Num(2)), Record(2, sA, Str(s7)), Record(3, sUpA, Num(1)),
      Record(4, sA, Str(sB)), Record(5, sAb, Str(sA)), RecordNoAge(6, sBA) }

CheckFields == { <<"name">>, <<"name", "age">> }

Operands == { Num(1), Num(7), Str(s7), Str(sA) }

Criteria ==
    {Gt(v) : v \in Operands} \cup {Lt(v) : v \in Operands}
    \cup {Eq(v) : v \in Operands} \cup {In(<<v>>) : v \in Operands}
    \cup { In(<<>>), In(<<Num(1), Str(sA)>>) }

ConditionQueries ==
    {Cond(<<Entry(k, c)>>) : k \in {"age", "name"}, c \in Criteria}
    \cup { Cond(<<>>),
           Cond(<<Entry("_id", Gt(Num(1))), Entry("age", Lt(Num(7)))>>) }

TextQueries == {Text(t) : t \in {sA, sB, sAB, sBA, sAb, sUpA, s7, sEmpty}}

NestLeaves == { Cond(<<Entry("_id", Gt(Num(1)))>>), Text(sA), Cond(<<Entry("age", Eq(Str(s7)))>>) }
NestOne == {And(q) : q \in SeqsUpTo(NestLeaves, 2)} \cup {Or(q) : q \in SeqsUpTo(NestLeaves, 2)}
NestInner ==
    { And(<<>>), Or(<<>>),
      And(<<Text(sA), Cond(<<Entry("_id", Gt(Num(1)))>>)>>),
      Or(<<Text(sA), Cond(<<Entry("_id", Gt(Num(1)))>>)>>) }
NestTwo ==
    {And(<<p, q>>) : p \in NestInner, q \in NestInner \cup NestLeaves}
    \cup {Or(<<p, q>>) : p \in NestInner, q \in NestInner \cup NestLeaves}

CheckQueries == ConditionQueries \cup TextQueries \cup NestOne \cup NestTwo

\* new QueryChecker(record, query, fields).isOk()
Check(record, query, fields) ==
    /\ chkDone = FALSE
    /\ chkDone' = TRUE
    /\ chkRecord' = record
    /\ chkQuery' = query
    /\ chkFields' = fields
    /\ chkResult' = isOk(record, query, fields)
    /\ UNCHANGED <<logVars, findVars>>

CheckNext ==
    \E record \in CheckRecords, query \in CheckQueries, fields \in CheckFields :
        Check(record, query, fields)

SpecCheck == Init /\ [][CheckNext]_vars

\* A number against a string, either way round.
Incompatible(a, b) ==
    \/ TypeOf(a) = "number" /\ TypeOf(b) = "string"
    \/ TypeOf(a) = "string" /\ TypeOf(b) = "number"

\* The operands of a criterion.
OperandsOf(criterion) ==
    IF criterion.op = "$in" THEN {criterion.vs[i] : i \in 1..Len(criterion.vs)}
    ELSE {criterion.v}

\* C6: a criterion whose operand and the record's field value are a number
\* and a string, either way round, does not match, for $gt, $lt, $eq and $in.
C6_IncompatibleTypesNeverMatch ==
    (/\ chkDone
     /\ chkQuery.kind = "cond"
     /\ Len(chkQuery.entries) = 1
     /\ \A v \in OperandsOf(chkQuery.entries[1].criterion) :
            Incompatible(v, Get(chkRecord, chkQuery.entries[1].key)))
    => chkResult = FALSE

\* C7: a $and node matches exactly when every sub-query matches and a $or
\* node exactly when at least one does, at any nesting; so {$and: []}
\* matches every record and {$or: []} none.
C7_AndOrSemantics ==
    chkDone =>
        /\ chkQuery.kind = "$and" =>
              chkResult = (\A i \in 1..Len(chkQuery.subs) :
                              isOk(chkRecord, chkQuery.subs[i], chkFields))
        /\ chkQuery.kind = "$or" =>
              chkResult = (\E i \in 1..Len(chkQuery.subs) :
                              isOk(chkRecord, chkQuery.subs[i], chkFields))
        /\ chkQuery = And(<<>>) => chkResult = TRUE
        /\ chkQuery = Or(<<>>) => chkResult = FALSE

\* C7 witness: a $and whose first sub-query is a $or of two sub-queries
\* matches, the $or holding by its second sub-query only.
C7_Witness ==
    /\ chkDone /\ chkResult
    /\ chkQuery.kind = "$and" /\ Len(chkQuery.subs) = 2
    /\ chkQuery.subs[1].kind = "$or" /\ Len(chkQuery.subs[1].subs) = 2
    /\ ~isOk(chkRecord, chkQuery.subs[1].subs[1], chkFields)
    /\ isOk(chkRecord, chkQuery.subs[1].subs[2], chkFields)

\* The words of a string: its maximal pieces free of spaces, the empty
\* pieces next to a space or in an empty string included.
WordsOf(str) ==
    { SubSeq(str, i, j) : <<i, j>> \in
        { p \in (1..(Len(str) + 1)) \X (0..Len(str)) :
            /\ p[2] >= p[1] - 1
            /\ \A k \in p[1]..p[2] : ~IsSpace(str[k])
            /\ (p[1] = 1 \/ IsSpace(str[p[1] - 1]))
            /\ (p[2] = Len(str) \/ IsSpace(str[p[2] + 1])) } }

\* C8: a $text query matches exactly when every word of the lowercased
\* query string is, as a whole word, a word of the lowercased string of
\* at least one full-text field; different words may be in different fields.
C8_TextWholeWords ==
    (chkDone /\ chkQuery.kind = "$text") =>
        chkResult =
            (\A w \in WordsOf(ToLowerCase(chkQuery.text)) :
                 \E f \in 1..Len(chkFields) :
                     w \in WordsOf(ToLowerCase(ToStr(Get(chkRecord, chkFields[f])))))

\* C8 witness: a two-word query matches a record through two full-text
\* fields, neither of which holds both words.
C8_Witness ==
    /\ chkDone /\ chkResult
    /\ chkQuery.kind = "$text"
    /\ Len(chkFields) = 2
    /\ ~isOk(chkRecord, chkQuery, <<chkFields[1]>>)
    /\ ~isOk(chkRecord, chkQuery, <<chkFields[2]>>)

(***************************************************************************)
(* find on a log that inserts have filled.                                 *)
(***************************************************************************)
FindRecords ==
    { Record(1, sB, Num(2)), Record(2, sA, Num(1)), Record(3, sUpA, Str(s7)),
      Record(4, sA, Num(2)), RecordNoAge(5, sB) }

FindQueries == { And(<<>>), Cond(<<Entry("age", Gt(Num(1)))>>), Text(sA) }

FindSorts ==
    { NoSort, SortBy(<<>>),
      SortBy(<<SortKey("age", 1)>>), SortBy(<<SortKey("age", -1)>>),
      SortBy(<<SortKey("name", -1)>>),
      SortBy(<<SortKey("name", 1), SortKey("age", -1)>>),
      SortBy(<<SortKey("age", 1), SortKey("name", -1)>>) }

FindProjections == { NoProjection, ProjectOn(<<"name">>), ProjectOn(<<"_id", "age">>) }

\* The content after the records were inserted in order into an empty file.
RECURSIVE InsertAll(_)
InsertAll(records) ==
    IF records = <<>> THEN <<>>
    ELSE appendFile(InsertAll(SubSeq(records, 1, Len(records) - 1)),
                    insertData(records[Len(records)]))

FindInit ==
    /\ file \in {InsertAll(records) : records \in SeqsUpTo(FindRecords, MaxArr)}
    /\ delPc = "idle"
    /\ delQuery = NoQuery
    /\ delAll = <<>>
    /\ delFound = <<>>
    /\ lastCall = Call("none", NoRecord, NoQuery, TRUE)
    /\ repeated = FALSE
    /\ dead = {}
    /\ overlapped = {}
    /\ ChkIdle
    /\ FindIdle
    /\ engine \in Engines

\* Database.find of exercise-15
Find15(query, options) ==
    /\ findDone = FALSE
    /\ findDone' = TRUE
    /\ findImpl' = "exercise-15"
    /\ findQuery' = query
    /\ findOptions' = options
    /\ findResult' = find(file, query, options, FullText, engine)
    /\ UNCHANGED <<logVars, chkVars, engine>>

\* Database.find of exercise-14
Find14(query, options) ==
    /\ findDone = FALSE
    /\ findDone' = TRUE
    /\ findImpl' = "exercise-14"
    /\ findQuery' = query
    /\ findOptions' = options
    /\ findResult' = find14(file, query, options, FullText, engine)
    /\ UNCHANGED <<logVars, chkVars, engine>>

FindNext ==
    \E query \in FindQueries, sort \in FindSorts, projection \in FindProjections :
        \/ Find15(query, Options(sort, projection))
        \/ Find14(query, Options(sort, projection))

SpecFind == FindInit /\ [][FindNext]_vars

\* What the Sorter of the last find was given.
SorterInput == Filter(Live(file), findQuery, FullText)

\* output is input reordered so that, of two records, the one the sort
\* spec's comparison puts first comes first, and two records it ties keep
\* their input order.
StableSortOf(input, output, sort) ==
    /\ Len(output) = Len(input)
    /\ \E p \in Permutations(1..Len(input)) :
          /\ \A i \in 1..Len(input) : output[i] = input[p[i]]
          /\ \A i, j \in 1..Len(input) :
                i < j => LET n == compare(sort, output[i], output[j])
                         IN  n < 0 \/ (n = 0 /\ p[i] < p[j])

\* The comparison of the sort spec orders the records consistently.
ConsistentOn(input, sort) ==
    \A i, j, k \in 1..Len(input) :
        (compare(sort, input[i], input[j]) <= 0 /\ compare(sort, input[j], input[k]) <= 0)
            => compare(sort, input[i], input[k]) <= 0

\* Every sort field holds values of one type across the records.
UniformTypes(input, sort) ==
    \A f \in 1..Len(sort) : \A i, j \in 1..Len(input) :
        TypeOf(Get(input[i], sort[f].key)) = TypeOf(Get(input[j], sort[f].key))

SortOnly == findDone /\ findResult.ok /\ findOptions.sort.present /\ ~findOptions.projection.present

\* C9 as stated: for every input, mismatched types included, the Sorter's
\* output is the stable sort of its input under the sort spec.
C9_StableSortAlways ==
    SortOnly => StableSortOf(SorterInput, findResult.lines, findOptions.sort.spec)

\* C9 amended: the Sorter's output is the stable sort of its input whenever
\* the comparison of the sort spec is consistent on the input, as it is when
\* every sort field holds values of one type.
C9_StableSortWhenConsistent ==
    (SortOnly /\ (\/ ConsistentOn(SorterInput, findOptions.sort.spec)
                  \/ UniformTypes(SorterInput, findOptions.sort.spec)))
        => StableSortOf(SorterInput, findResult.lines, findOptions.sort.spec)

\* C9 witness: a two-field sort has reordered three records, two of which
\* it ties.
C9_Witness ==
    /\ SortOnly
    /\ Len(findOptions.sort.spec) = 2
    /\ ConsistentOn(SorterInput, findOptions.sort.spec)
    /\ Len(SorterInput) = 3
    /\ findResult.lines # SorterInput
    /\ \E i, j \in 1..3 :
          i # j /\ compare(findOptions.sort.spec, SorterInput[i], SorterInput[j]) = 0

\* The find of the implementation the last call was made on.
FindOf(impl, query, options) ==
    IF impl = "exercise-14"
       THEN find14(file, query, options, FullText, engine)
       ELSE find(file, query, options, FullText, engine)

\* C10: with a sort and a projection, find resolves with the projection,
\* record by record, of what find with the sort alone resolves with.
C10_SortBeforeProjection ==
    (findDone /\ findResult.ok /\ findOptions.sort.present /\ findOptions.projection.present)
    => findResult.lines =
          Projector(FindOf(findImpl, findQuery, Options(findOptions.sort, NoProjection)).lines,
                    findOptions.projection.spec)

\* C10 witness: the projection drops the field sorted on, and the result
\* is in another order than the projection of the unsorted records.
C10_Witness ==
    /\ findDone /\ findResult.ok
    /\ findOptions.sort.present /\ findOptions.projection.present
    /\ \A i \in 1..Len(findOptions.sort.spec) :
          findOptions.sort.spec[i].key \notin KeySet(findOptions.projection.spec)
    /\ Len(findOptions.sort.spec) >= 1
    /\ findResult.lines # Projector(SorterInput, findOptions.projection.spec)

\* The records the Projector of the last find was given.
ProjectorInput == FindOf(findImpl, findQuery, Options(findOptions.sort, NoProjection)).lines

\* C11: the keys of each projected record are exactly the projection keys
\* that are keys of its source record; a projection key the source record
\* lacks is not a key of the result, and no other field is.
C11_ProjectedKeysArePresentKeys ==
    (findDone /\ findResult.ok /\ findOptions.projection.present)
    => /\ Len(findResult.lines) = Len(ProjectorInput)
       /\ \A i \in 1..Len(findResult.lines) :
             DOMAIN findResult.lines[i]
                = KeySet(findOptions.projection.spec) \cap DOMAIN ProjectorInput[i]

\* A line whose payload readAll cannot deserialize.
BadLine(line) == ~isDeleted(line) /\ parseLineThrows(line)
Corrupt(content) ==
    LET ls == ReadLines(content) IN \E i \in 1..Len(ls) : BadLine(ls[i])

\* C12: when any line of the log that is not deleted fails to deserialize,
\* readAll and every find are rejected and give no records, and a delete
\* called on that log is rejected and leaves the file as it was.
C12_ReadAllAllOrNothing ==
    [][ Corrupt(file)
        => /\ ~readAll(file).ok
           /\ readAll(file).lines = <<>>
           /\ \A query \in LogQueries :
                 LET found == find(file, query, NoOptions, FullText, engine)
                 IN  /\ ~found.ok
                     /\ found.lines = <<>>
                     /\ ~find14(file, query, NoOptions, FullText, engine).ok
           /\ delPc = "idle" => delPc' = "idle"
           /\ lastCall'.op = "delete" => (~lastCall'.ok /\ file' = file) ]_vars

\* C12 witness: a delete was rejected on a log whose first line does not
\* parse while a later line does, so the scan had pushed a record by the
\* time of 'close'.
C12_Witness ==
    /\ lastCall.op = "delete"
    /\ ~lastCall.ok
    /\ LET ls == ReadLines(file) IN
       \E i, j \in 1..Len(ls) :
          /\ i < j
          /\ BadLine(ls[i])
          /\ ~isDeleted(ls[j])
          /\ ~parseLineThrows(ls[j])

\* The records of the calls in overlapped made at the given position of delete.
OverlappedAt(pc) == {e.record : e \in {o \in overlapped : o.at = pc}}
InSnapshot(record) == \E i \in 1..Len(delAll) : delAll[i] = record

\* C13: a delete that completes writes only the records of its snapshot,
\* so a record inserted while the delete was in flight, after its readAll,
\* and not in the snapshot is not returned by a readAll made afterwards.
C13_OverlappingInsertLost ==
    [][ DeleteCompletes
        => \A e \in overlapped :
              ~InSnapshot(e.record) => ~Returns(file', e.record) ]_vars

\* C13 witness: a delete completed during which two inserts of records not
\* matching its query completed, one after its readAll and one after its
\* find, and readAll resolves without either record.
C13_Witness ==
    /\ delPc = "idle"
    /\ lastCall.op = "delete"
    /\ lastCall.ok
    /\ readAll(file).ok
    /\ \E r \in OverlappedAt("read"), s \in OverlappedAt("found") :
          /\ ~isOk(r, lastCall.query, FullText)
          /\ ~isOk(s, lastCall.query, FullText)
          /\ \A i \in 1..Len(Live(file)) : Live(file)[i] # r /\ Live(file)[i] # s

====
